---- MODULE Spec2Model ----
(***************************************************************************)
(* Model of the BusTub storage core: the LRU-K replacer                    *)
(* (src/src/buffer/lru_k_replacer.cpp), the buffer pool manager            *)
(* (src/src/buffer/buffer_pool_manager.cpp), the disk scheduler            *)
(* (src/src/storage/disk/disk_scheduler.cpp), the page guards              *)
(* (src/src/storage/page/page_guard.cpp) and the copy-on-write trie        *)
(* (src/src/primer/trie.cpp).                                              *)
(*                                                                         *)
(* Every public method runs under its object's mutex, so one method call   *)
(* is one action.  `last` records the most recent call (its name, its      *)
(* arguments and what it returned) so that properties can speak about      *)
(* what a call did: [][last'.op = "X" => R(unprimed, primed)]_vars.        *)
(***************************************************************************)
EXTENDS Integers, Sequences, FiniteSets, TLC

VARIABLES
  replacer_,       \* LRUKReplacer: node_store_, evictable_list_, curr_size_, current_timestamp_, k_, replacer_size_
  pool_size_,      \* BufferPoolManager::pool_size_
  pages_,          \* BufferPoolManager::pages_ : frame -> [page_id_, pin_count_, is_dirty_]
  page_table_,     \* BufferPoolManager::page_table_ : page id -> frame (a partial map)
  free_list_,      \* BufferPoolManager::free_list_
  free_pages_,     \* BufferPoolManager::free_pages_ (deallocated page ids)
  next_page_id_,   \* BufferPoolManager::next_page_id_
  latch_,          \* BufferPoolManager::latch_ : "free", or "deadlocked" once its owner waits for it again
  request_queue_,  \* DiskScheduler::request_queue_
  disk_scheduler_, \* DiskScheduler: its worker thread, its destructor, the promises it created, the disk manager's calls
  trie_,           \* the trie nodes allocated so far, the root_ of every Trie returned so far, and the last call
  guards_,         \* the page guards of the client: per slot a Basic / Read / Write guard, and the last guard call
  last             \* the most recent call and its result

vars == <<replacer_, pool_size_, pages_, page_table_, free_list_, free_pages_, next_page_id_, latch_, request_queue_,
          disk_scheduler_, trie_, guards_, last>>

bpmVars == <<pool_size_, pages_, page_table_, free_list_, free_pages_, next_page_id_, latch_, request_queue_,
             disk_scheduler_>>

\* ------------------------------------------------------------------ bounds
MaxPoolSize == 2     \* the pool under test is built with pool_size in 1..MaxPoolSize
MaxPageId == 1       \* client-supplied page ids are 0..MaxPageId; next_page_id_ stops one past it
MaxPin == 2          \* a frame is pinned at most this many times
MaxQueue == 1        \* requests waiting in the scheduler queue
MaxFreePages == 1    \* length of free_pages_
NumFrames == 2       \* replacer_size_ of the replacer under test
MaxK == 3            \* the replacer under test is built with k in 1..MaxK
MaxTime == 4         \* current_timestamp_ stops here
MaxRequests == 3     \* requests scheduled on the scheduler under test
MaxKeyLen == 2       \* trie keys have at most this many characters
MaxValue == 2        \* trie values are 1..MaxValue
MaxVersions == 5     \* tries kept: the empty one and those the calls returned
MaxGuards == 2       \* guard objects the client has room for

\* ------------------------------------------------------------------ constants
INVALID_PAGE_ID == -1
ReplacerK == 2       \* replacer_k the pool is constructed with
NoFrame == -1        \* "no frame" in a call record (a nullptr return)

\* ------------------------------------------------------------------ helpers
Min(S) == CHOOSE x \in S : \A y \in S : x <= y

RemoveAt(s, i) == SubSeq(s, 1, i - 1) \o SubSeq(s, i + 1, Len(s))

\* std::list::remove(value): drops every element equal to value
ListRemove(s, v) == SelectSeq(s, LAMBDA x : x # v)

MapPut(m, key, val) == [x \in DOMAIN m \cup {key} |-> IF x = key THEN val ELSE m[x]]

MapErase(m, key) == [x \in DOMAIN m \ {key} |-> m[x]]

EmptyMap == [x \in {} |-> 0]

\* ================================================================== LRUKReplacer
\* A default-constructed LRUKNode: what node_store_[frame_id] creates.
DefaultNode == [history_ |-> <<>>, is_evictable_ |-> FALSE]

NewReplacer(num_frames, k) ==
  [node_store_ |-> EmptyMap, evictable_list_ |-> <<>>, curr_size_ |-> 0,
   current_timestamp_ |-> 0, k_ |-> k, replacer_size_ |-> num_frames]

\* node_store_[frame_id] as an rvalue
NodeAt(r, frame_id) ==
  IF frame_id \in DOMAIN r.node_store_ THEN r.node_store_[frame_id] ELSE DefaultNode

\* history_ is newest first: push_front adds, pop_back drops the oldest.
\* front() of an empty std::list is undefined: it yields the value `garbage`.
HistoryFront(h, garbage) == IF h = <<>> THEN garbage ELSE h[1]

\* (a variant of HistoryBack that reads the newest entry)
HistoryBackNewest(h) == h[1]

\* history_.back(): the oldest entry kept
HistoryBack(h) == h[Len(h)]

\* (a variant of LessKFrames that also admits frames with exactly k_ entries)
RECURSIVE LessKFramesOffByOne(_, _, _, _)
LessKFramesOffByOne(r, garbage, i, less_k_frames) ==
  IF i > Len(r.evictable_list_) THEN less_k_frames
  ELSE LET f == r.evictable_list_[i]
           h == r.node_store_[f].history_
           key == HistoryFront(h, garbage[f])
       IN IF Len(h) <= r.k_ /\ key \notin DOMAIN less_k_frames
          THEN LessKFramesOffByOne(r, garbage, i + 1, MapPut(less_k_frames, key, i))
          ELSE LessKFramesOffByOne(r, garbage, i + 1, less_k_frames)

\* First loop of Evict: the std::map from history_.front() to the list position
\* of every evictable frame with fewer than k_ entries; std::map::insert keeps
\* the entry already present for a key.
RECURSIVE LessKFrames(_, _, _, _)
LessKFrames(r, garbage, i, less_k_frames) ==
  IF i > Len(r.evictable_list_) THEN less_k_frames
  ELSE LET f == r.evictable_list_[i]
           h == r.node_store_[f].history_
           key == HistoryFront(h, garbage[f])
       IN IF Len(h) < r.k_ /\ key \notin DOMAIN less_k_frames
          THEN LessKFrames(r, garbage, i + 1, MapPut(less_k_frames, key, i))
          ELSE LessKFrames(r, garbage, i + 1, less_k_frames)

\* Second loop of Evict: the first position whose history_.back() is smallest.
RECURSIVE ScanBack(_, _, _)
ScanBack(r, evict_it, it) ==
  IF evict_it > Len(r.evictable_list_) THEN it
  ELSE LET node == r.node_store_[r.evictable_list_[evict_it]]
           cur == r.node_store_[r.evictable_list_[it]]
       IN IF HistoryBack(node.history_) < HistoryBack(cur.history_)
          THEN ScanBack(r, evict_it + 1, evict_it)
          ELSE ScanBack(r, evict_it + 1, it)

\* The list position Evict erases (the list is not empty).
EvictPosition(r, garbage) ==
  LET less_k_frames == LessKFrames(r, garbage, 1, EmptyMap)
  IN IF DOMAIN less_k_frames # {}
     THEN less_k_frames[Min(DOMAIN less_k_frames)]
     ELSE ScanBack(r, 1, 1)

\* LRUKReplacer::Evict: [ok, frame, r] with r the replacer afterwards.
Evict(r, garbage) ==
  IF r.evictable_list_ = <<>>
  THEN [ok |-> FALSE, frame |-> NoFrame, r |-> r]
  ELSE LET pos == EvictPosition(r, garbage)
           f == r.evictable_list_[pos]
       IN [ok |-> TRUE, frame |-> f,
           r |-> [r EXCEPT !.evictable_list_ = RemoveAt(@, pos),
                           !.node_store_ = MapErase(@, f),
                           !.curr_size_ = @ - 1]]

\* LRUKReplacer::RecordAccess for a frame_id < replacer_size_
RecordAccess(r, frame_id) ==
  LET pushed == <<r.current_timestamp_>> \o NodeAt(r, frame_id).history_
      h == IF Len(pushed) > r.k_ THEN SubSeq(pushed, 1, Len(pushed) - 1) ELSE pushed
  IN [r EXCEPT !.node_store_ = MapPut(@, frame_id, [NodeAt(r, frame_id) EXCEPT !.history_ = h]),
               !.current_timestamp_ = @ + 1]

\* LRUKReplacer::SetEvictable for a frame_id < replacer_size_
SetEvictable(r, frame_id, set_evictable) ==
  LET node == NodeAt(r, frame_id)
      lst == IF set_evictable /\ ~node.is_evictable_ THEN Append(r.evictable_list_, frame_id)
             ELSE IF ~set_evictable /\ node.is_evictable_ THEN ListRemove(r.evictable_list_, frame_id)
             ELSE r.evictable_list_
      sz == IF set_evictable /\ ~node.is_evictable_ THEN r.curr_size_ + 1
            ELSE IF ~set_evictable /\ node.is_evictable_ THEN r.curr_size_ - 1
            ELSE r.curr_size_
  IN [r EXCEPT !.evictable_list_ = lst, !.curr_size_ = sz,
               !.node_store_ = MapPut(@, frame_id, [node EXCEPT !.is_evictable_ = set_evictable])]

\* LRUKReplacer::Remove throws for a frame that is not tracked or not evictable
RemoveThrows(r, frame_id) ==
  frame_id \notin DOMAIN r.node_store_ \/ ~r.node_store_[frame_id].is_evictable_

\* (a variant of Remove that leaves curr_size_ alone)
RemoveKeepSize(r, frame_id) ==
  [r EXCEPT !.evictable_list_ = ListRemove(@, frame_id),
            !.node_store_ = MapErase(@, frame_id)]

\* LRUKReplacer::Remove when it does not throw
Remove(r, frame_id) ==
  [r EXCEPT !.evictable_list_ = ListRemove(@, frame_id),
            !.node_store_ = MapErase(@, frame_id),
            !.curr_size_ = @ - 1]

\* LRUKReplacer::Size
Size(r) == r.curr_size_

\* the frames whose evictable flag is set
EvictableFrames(r) == {f \in DOMAIN r.node_store_ : r.node_store_[f].is_evictable_}

\* the number of accesses recorded for a tracked frame, at most k_ of them kept
Accesses(r, f) == Len(r.node_store_[f].history_)

\* evictable frames with fewer than k recorded accesses (k-distance +infinity)
InfiniteFrames(r) == {f \in EvictableFrames(r) : Accesses(r, f) < r.k_}

\* ================================================================== Trie
\* A node lives at an index of `nodes`; 0 is the null pointer.  A node is a
\* TrieNode or (with_value) a TrieNodeWithValue<T>; value_ is 0 when it has none.
Chars == {"a", "b"}

Keys == UNION {[1 .. n -> Chars] : n \in 0 .. MaxKeyLen}

Values == 1 .. MaxValue

\* TrieNode(children)
TrieNode(children) ==
  [children_ |-> children, is_value_node_ |-> FALSE, with_value |-> FALSE, value_ |-> 0]

\* TrieNodeWithValue(children, value): the constructor sets is_value_node_
TrieNodeWithValue(children, value) ==
  [children_ |-> children, is_value_node_ |-> TRUE, with_value |-> TRUE, value_ |-> value]

\* the virtual Clone(): a node of the same class made by its constructor
Clone(node) ==
  IF node.with_value THEN TrieNodeWithValue(node.children_, node.value_)
  ELSE TrieNode(node.children_)

\* The loop of Trie::Get from position i of key: the node reached, 0 if the
\* walk returns nullptr.
RECURSIVE GetWalk(_, _, _, _)
GetWalk(nodes, current, key, i) ==
  IF i > Len(key) THEN current
  ELSE IF current = 0 \/ key[i] \notin DOMAIN nodes[current].children_ THEN 0
  ELSE GetWalk(nodes, nodes[current].children_[key[i]], key, i + 1)

\* Trie::Get: the value found, 0 for nullptr
TrieGet(nodes, root, key) ==
  LET current == GetWalk(nodes, root, key, 1)
  IN IF current = 0 THEN 0
     ELSE IF ~nodes[current].with_value THEN 0
     ELSE IF ~nodes[current].is_value_node_ THEN 0
     ELSE nodes[current].value_

\* (a variant of ClonedChild that hands out the shared child itself)
SharedChild(nodes, iter) == [nodes |-> nodes, ptr |-> iter]

\* Putcycle: ptr = iter->Clone()
ClonedChild(nodes, iter) == [nodes |-> Append(nodes, Clone(nodes[iter])), ptr |-> Len(nodes) + 1]

\* Putcycle(new_root, key.substr(i - 1), value): the nodes afterwards
RECURSIVE Putcycle(_, _, _, _, _)
Putcycle(nodes, new_root, key, i, value) ==
  LET c == key[i]
      last_char == i = Len(key)
  IN IF c \in DOMAIN nodes[new_root].children_
     THEN LET iter == nodes[new_root].children_[c]
          IN IF ~last_char
             THEN LET cl == ClonedChild(nodes, iter)
                      done == Putcycle(cl.nodes, cl.ptr, key, i + 1, value)
                  IN [done EXCEPT ![new_root].children_ = MapPut(@, c, cl.ptr)]
             ELSE LET made == Append(nodes, TrieNodeWithValue(nodes[iter].children_, value))
                  IN [made EXCEPT ![new_root].children_ = MapPut(@, c, Len(made))]
     ELSE IF last_char
     THEN LET made == Append(nodes, TrieNodeWithValue(EmptyMap, value))
          IN [made EXCEPT ![new_root].children_ = MapPut(@, c, Len(made))]
     ELSE LET made == Append(nodes, TrieNode(EmptyMap))
              ptr == Len(made)
              done == Putcycle(made, ptr, key, i + 1, value)
          IN [done EXCEPT ![new_root].children_ = MapPut(@, c, ptr)]

\* root_->children_ with root_ = nullptr is undefined: the call crashes, or
\* reads a children_ that looks empty
NullRoot == {"crash", "empty"}

\* Trie::Put: [status, nodes, root] with root the root_ of the Trie returned
TriePut(nodes, root, key, value, null_root) ==
  IF key = <<>>
  THEN IF root = 0 /\ null_root = "crash"
       THEN [status |-> "crashed", nodes |-> nodes, root |-> 0]
       ELSE LET children == IF root = 0 THEN EmptyMap ELSE nodes[root].children_
                made == Append(nodes, TrieNodeWithValue(children, value))
            IN [status |-> "returned", nodes |-> made, root |-> Len(made)]
  ELSE LET made == Append(nodes, IF root = 0 THEN TrieNode(EmptyMap) ELSE Clone(nodes[root]))
           new_root == Len(made)
       IN [status |-> "returned", nodes |-> Putcycle(made, new_root, key, 1, value), root |-> new_root]

\* (a variant of ClonedFlag that keeps the flag the constructor set)
ConstructedFlag(clone, original) == clone.is_value_node_

\* Remove: new_node->is_value_node_ = it->second->is_value_node_
ClonedFlag(clone, original) == original.is_value_node_

\* The for loop of Trie::Remove from position i of key; st = [nodes, current,
\* stacks, found].  found is false once a character has no child.
RECURSIVE RemoveWalk(_, _, _)
RemoveWalk(st, key, i) ==
  IF i > Len(key) THEN st
  ELSE LET ch == key[i]
           children == st.nodes[st.current].children_
       IN IF ch \notin DOMAIN children THEN [st EXCEPT !.found = FALSE]
          ELSE LET original == st.nodes[children[ch]]
                   clone == Clone(original)
                   made == Append(st.nodes, [clone EXCEPT !.is_value_node_ = ClonedFlag(clone, original)])
                   new_node == Len(made)
               IN RemoveWalk([nodes |-> [made EXCEPT ![st.current].children_ = MapPut(@, ch, new_node)],
                              current |-> new_node,
                              stacks |-> Append(st.stacks, <<ch, st.current>>),
                              found |-> TRUE], key, i + 1)

\* The while loop of Trie::Remove: the nodes after pruning along stacks
RECURSIVE RemovePrune(_, _)
RemovePrune(nodes, stacks) ==
  IF stacks = <<>> THEN nodes
  ELSE LET ch == stacks[Len(stacks)][1]
           parent == stacks[Len(stacks)][2]
           rest == SubSeq(stacks, 1, Len(stacks) - 1)
       IN IF /\ ch \in DOMAIN nodes[parent].children_
             /\ DOMAIN nodes[nodes[parent].children_[ch]].children_ = {}
             /\ ~nodes[nodes[parent].children_[ch]].is_value_node_
          THEN RemovePrune([nodes EXCEPT ![parent].children_ = MapErase(@, ch)], rest)
          ELSE nodes

\* Trie::Remove: [status, nodes, root]; `return *this` hands back root itself
\* and the clones made on the way are freed
TrieRemove(nodes, root, key) ==
  LET same == [status |-> "returned", nodes |-> nodes, root |-> root]
  IN IF root = 0 THEN same
     ELSE
       LET clone == Clone(nodes[root])
           made == Append(nodes, IF ~nodes[root].is_value_node_
                                 THEN [clone EXCEPT !.is_value_node_ = FALSE] ELSE clone)
           new_root == Len(made)
       IN IF key = <<>> /\ made[new_root].is_value_node_
          THEN [status |-> "returned", nodes |-> [made EXCEPT ![new_root].is_value_node_ = FALSE],
                root |-> new_root]
          ELSE
            LET st == RemoveWalk([nodes |-> made, current |-> new_root, stacks |-> <<>>, found |-> TRUE],
                                 key, 1)
            IN IF ~st.found \/ ~st.nodes[st.current].is_value_node_ THEN same
               ELSE LET cleared == [st.nodes EXCEPT ![st.current].is_value_node_ = FALSE]
                        pruned == RemovePrune(cleared, st.stacks)
                    IN [status |-> "returned", nodes |-> pruned,
                        root |-> IF ~pruned[new_root].is_value_node_ /\ DOMAIN pruned[new_root].children_ = {}
                                 THEN 0 ELSE new_root]

\* Trie(): no root; op, key, value and status describe the last call
NewTrie ==
  [nodes |-> <<>>, roots |-> <<0>>, op |-> "none", key |-> <<>>, value |-> 0, status |-> "returned"]

\* ================================================================== page guards
Slots == 1 .. MaxGuards

\* BasicPageGuard(): bpm_ and page_ null.  bpm_ is TRUE for a non-null pool
\* pointer; page_ is the frame pointed at, NoFrame for nullptr.
EmptyGuard == [bpm_ |-> FALSE, page_ |-> NoFrame, is_dirty_ |-> FALSE]

\* a slot holds no object ("dead") or a guard of class kind; for a Read or
\* Write guard the fields are those of its guard_
NoGuards ==
  [g |-> [s \in Slots |-> [kind |-> "dead", guard_ |-> EmptyGuard]],
   op |-> "none", this |-> 0, that |-> 0]

\* ------------------------------------------------------------------ call records
\* op: the method; page_id, is_dirty: its arguments; status: "returned", "throws"
\* or "blocked"; ok: a true / non-null result; frame: the frame returned (or the
\* frame_id argument of a replacer call); history: the history_ Evict discarded.
Call(op, page_id, is_dirty, status, ok, frame) ==
  [op |-> op, page_id |-> page_id, is_dirty |-> is_dirty, status |-> status, ok |-> ok,
   frame |-> frame, history |-> <<>>]

NoCall == Call("none", INVALID_PAGE_ID, FALSE, "returned", FALSE, NoFrame)

\* ================================================================== the replacer on its own
ReplacerFrames == 0 .. NumFrames - 1

\* What front() of an empty history_ may read, per frame: a value below, among,
\* equal to or above the timestamps recorded so far.  Only the frames whose
\* empty history_ Evict reads get a choice.
Garbage(r, frames) ==
  {g \in [frames -> 0 .. r.current_timestamp_ + 1] :
     \A f \in frames :
       (\E i \in 1 .. Len(r.evictable_list_) :
          r.evictable_list_[i] = f /\ r.node_store_[f].history_ = <<>>) \/ g[f] = 0}

\* std::nullopt in the request queue: the signal to leave the worker loop
Nullopt == [has_value |-> FALSE]

\* DiskScheduler::DiskScheduler: the worker thread is about to call Get.
\* thread: where the worker stands ("Get", "Perform", "SetValue", "exited");
\* r: the request it took; disk: the ReadPage / WritePage calls made so far;
\* promises[i]: how often set_value was called on the i-th promise created;
\* object: "alive", "joining" (inside the destructor) or "destroyed".
NewDiskScheduler ==
  [thread |-> "Get", r |-> Nullopt, disk |-> <<>>, promises |-> <<>>, object |-> "alive"]

\* BufferPoolManager::BufferPoolManager, without its replacer
NewBufferPool(pool_size) ==
  /\ pool_size_ = pool_size
  /\ pages_ = [f \in 0 .. pool_size - 1 |-> [page_id_ |-> INVALID_PAGE_ID, pin_count_ |-> 0, is_dirty_ |-> FALSE]]
  /\ page_table_ = EmptyMap
  /\ free_list_ = [i \in 1 .. pool_size |-> i - 1]
  /\ free_pages_ = <<>>
  /\ next_page_id_ = 0
  /\ latch_ = "free"
  /\ request_queue_ = <<>>
  /\ disk_scheduler_ = NewDiskScheduler

InitReplacer ==
  /\ \E k \in 1 .. MaxK : replacer_ = NewReplacer(NumFrames, k)
  /\ NewBufferPool(1)
  /\ trie_ = NewTrie
  /\ guards_ = NoGuards
  /\ last = NoCall

\* RecordAccess(frame_id); frame_id = NumFrames is the out-of-range call
DoRecordAccess(frame_id) ==
  /\ replacer_.current_timestamp_ < MaxTime
  /\ IF frame_id >= replacer_.replacer_size_
     THEN /\ replacer_' = replacer_
          /\ last' = Call("RecordAccess", INVALID_PAGE_ID, FALSE, "throws", FALSE, frame_id)
     ELSE /\ replacer_' = RecordAccess(replacer_, frame_id)
          /\ last' = Call("RecordAccess", INVALID_PAGE_ID, FALSE, "returned", TRUE, frame_id)
  /\ UNCHANGED <<bpmVars, trie_, guards_>>

DoSetEvictable(frame_id, set_evictable) ==
  /\ IF frame_id >= replacer_.replacer_size_
     THEN /\ replacer_' = replacer_
          /\ last' = Call("SetEvictable", INVALID_PAGE_ID, set_evictable, "throws", FALSE, frame_id)
     ELSE /\ replacer_' = SetEvictable(replacer_, frame_id, set_evictable)
          /\ last' = Call("SetEvictable", INVALID_PAGE_ID, set_evictable, "returned", TRUE, frame_id)
  /\ UNCHANGED <<bpmVars, trie_, guards_>>

DoEvict ==
  /\ \E garbage \in Garbage(replacer_, ReplacerFrames) :
       LET e == Evict(replacer_, garbage)
       IN /\ replacer_' = e.r
          /\ last' = [Call("Evict", INVALID_PAGE_ID, FALSE, "returned", e.ok, e.frame)
                         EXCEPT !.history = NodeAt(replacer_, e.frame).history_]
  /\ UNCHANGED <<bpmVars, trie_, guards_>>

DoRemove(frame_id) ==
  /\ IF frame_id >= replacer_.replacer_size_ \/ RemoveThrows(replacer_, frame_id)
     THEN /\ replacer_' = replacer_
          /\ last' = Call("Remove", INVALID_PAGE_ID, FALSE, "throws", FALSE, frame_id)
     ELSE /\ replacer_' = Remove(replacer_, frame_id)
          /\ last' = Call("Remove", INVALID_PAGE_ID, FALSE, "returned", TRUE, frame_id)
  /\ UNCHANGED <<bpmVars, trie_, guards_>>

NextReplacer ==
  \/ \E f \in 0 .. NumFrames : DoRecordAccess(f)
  \/ \E f \in 0 .. NumFrames, b \in BOOLEAN : DoSetEvictable(f, b)
  \/ DoEvict
  \/ \E f \in 0 .. NumFrames : DoRemove(f)

SpecReplacer == InitReplacer /\ [][NextReplacer]_vars

\* ================================================================== BufferPoolManager
Frames == 0 .. pool_size_ - 1

PageIds == 0 .. MaxPageId

\* BufferPoolManager::BufferPoolManager
Init ==
  /\ \E pool_size \in 1 .. MaxPoolSize :
       /\ replacer_ = NewReplacer(pool_size, ReplacerK)
       /\ NewBufferPool(pool_size)
  /\ trie_ = NewTrie
  /\ guards_ = NoGuards
  /\ last = NoCall

\* the loop NewPage and FetchPage start with
AllPinned == \A i \in Frames : pages_[i].pin_count_ # 0

\* DiskRequest{is_write_, data_, page_id_}; data_ points at the buffer of a frame
DiskRequest(is_write, frame_id, page_id) ==
  [is_write_ |-> is_write, data_ |-> frame_id, page_id_ |-> page_id]

\* DiskScheduler::Schedule
Schedule(queue, r) == Append(queue, r)

\* BufferPoolManager::AllocatePage once it holds the latch
AllocatePage(free_pages, next_page_id) ==
  IF free_pages # <<>>
  THEN [page_id |-> Head(free_pages), free_pages_ |-> Tail(free_pages), next_page_id_ |-> next_page_id]
  ELSE [page_id |-> next_page_id, free_pages_ |-> free_pages, next_page_id_ |-> next_page_id + 1]

\* BufferPoolManager::DeallocatePage once it holds the latch
DeallocatePage(free_pages, page_id) == Append(free_pages, page_id)

\* AllocatePage and DeallocatePage lock latch_, which their caller already
\* holds.  Locking a std::mutex its owner holds is undefined: the call either
\* never returns ("deadlock") or goes on as if the lock were re-entrant.
Relock == {"deadlock", "proceeds"}

\* static_cast<size_t>(page_id) >= pool_size_ in NewPage
BeyondPool(page_id, pool_size) == page_id < 0 \/ page_id >= pool_size

\* the sizes the model keeps below its bounds
WithinBounds ==
  /\ Len(request_queue_) <= MaxQueue
  /\ Len(free_pages_) <= MaxFreePages
  /\ next_page_id_ <= MaxPageId + 1
  /\ \A f \in Frames : pages_[f].pin_count_ <= MaxPin

\* a call that returns without touching the pool
ReturnUnchanged(call) ==
  /\ last' = call
  /\ UNCHANGED <<replacer_, bpmVars>>

\* BufferPoolManager::NewPage
NewPage ==
  /\ latch_ = "free"
  /\ UNCHANGED <<pool_size_, disk_scheduler_, trie_, guards_>>
  /\ IF AllPinned
     THEN ReturnUnchanged(Call("NewPage", INVALID_PAGE_ID, FALSE, "returned", FALSE, NoFrame))
     ELSE \E garbage \in Garbage(replacer_, Frames), relock \in Relock :
       LET from_free == free_list_ # <<>>
           e == Evict(replacer_, garbage)
       IN IF ~from_free /\ ~e.ok
          THEN ReturnUnchanged(Call("NewPage", INVALID_PAGE_ID, FALSE, "returned", FALSE, NoFrame))
          ELSE
            LET free_frame == IF from_free THEN Head(free_list_) ELSE e.frame
                victim == pages_[free_frame]
                write_back == ~from_free /\ victim.is_dirty_
                queue1 == IF write_back
                          THEN Schedule(request_queue_, DiskRequest(TRUE, free_frame, victim.page_id_))
                          ELSE request_queue_
                pages1 == IF write_back THEN [pages_ EXCEPT ![free_frame].is_dirty_ = FALSE] ELSE pages_
                free_pages1 == IF from_free THEN free_pages_ ELSE Append(free_pages_, victim.page_id_)
                a == AllocatePage(free_pages1, next_page_id_)
                page_id == a.page_id
                queue2 == IF page_id \in DOMAIN page_table_
                          THEN Schedule(queue1, DiskRequest(FALSE, free_frame, page_id))
                          ELSE queue1
            IN /\ free_list_' = IF from_free THEN Tail(free_list_) ELSE free_list_
               /\ IF relock = "deadlock"
                  THEN /\ latch_' = "deadlocked"
                       /\ replacer_' = IF from_free THEN replacer_ ELSE e.r
                       /\ pages_' = pages1
                       /\ request_queue_' = queue1
                       /\ free_pages_' = free_pages1
                       /\ UNCHANGED <<page_table_, next_page_id_>>
                       /\ last' = Call("NewPage", INVALID_PAGE_ID, FALSE, "blocked", FALSE, NoFrame)
                  ELSE IF BeyondPool(page_id, pool_size_)
                  THEN /\ replacer_' = IF from_free THEN replacer_ ELSE e.r
                       /\ pages_' = pages1
                       /\ request_queue_' = queue1
                       /\ free_pages_' = a.free_pages_
                       /\ next_page_id_' = a.next_page_id_
                       /\ UNCHANGED <<page_table_, latch_>>
                       /\ last' = Call("NewPage", page_id, FALSE, "returned", FALSE, NoFrame)
                  ELSE /\ replacer_' = SetEvictable(IF from_free THEN replacer_ ELSE e.r, free_frame, FALSE)
                       /\ pages_' = [pages1 EXCEPT ![free_frame] =
                                       [page_id_ |-> page_id, pin_count_ |-> 1, is_dirty_ |-> FALSE]]
                       /\ request_queue_' = queue2
                       /\ free_pages_' = a.free_pages_
                       /\ next_page_id_' = a.next_page_id_
                       /\ page_table_' = MapPut(page_table_, page_id, free_frame)
                       /\ UNCHANGED latch_
                       /\ last' = Call("NewPage", page_id, FALSE, "returned", TRUE, free_frame)
  /\ WithinBounds'

\* BufferPoolManager::FetchPage
FetchPage(page_id) ==
  /\ latch_ = "free"
  /\ UNCHANGED <<pool_size_, disk_scheduler_, trie_, guards_>>
  /\ IF AllPinned
     THEN ReturnUnchanged(Call("FetchPage", page_id, FALSE, "returned", FALSE, NoFrame))
     ELSE IF page_id \in DOMAIN page_table_
     THEN LET frame_id == page_table_[page_id]
          IN /\ pages_' = [pages_ EXCEPT ![frame_id].pin_count_ = @ + 1]
             /\ replacer_' = SetEvictable(replacer_, frame_id, FALSE)
             /\ UNCHANGED <<page_table_, free_list_, free_pages_, next_page_id_, latch_, request_queue_>>
             /\ last' = Call("FetchPage", page_id, FALSE, "returned", TRUE, frame_id)
     ELSE \E garbage \in Garbage(replacer_, Frames) :
       LET from_free == free_list_ # <<>>
           e == Evict(replacer_, garbage)
       IN IF ~from_free /\ ~e.ok
          THEN ReturnUnchanged(Call("FetchPage", page_id, FALSE, "returned", FALSE, NoFrame))
          ELSE
            LET free_frame == IF from_free THEN Head(free_list_) ELSE e.frame
            IN /\ free_list_' = IF from_free THEN Tail(free_list_) ELSE free_list_
               /\ request_queue_' = Schedule(request_queue_, DiskRequest(FALSE, free_frame, page_id))
               /\ pages_' = [pages_ EXCEPT ![free_frame] =
                               [page_id_ |-> page_id, pin_count_ |-> @.pin_count_ + 1, is_dirty_ |-> FALSE]]
               /\ replacer_' = SetEvictable(IF from_free THEN replacer_ ELSE e.r, free_frame, FALSE)
               /\ UNCHANGED <<page_table_, free_pages_, next_page_id_, latch_>>
               /\ last' = Call("FetchPage", page_id, FALSE, "returned", TRUE, free_frame)
  /\ WithinBounds'

\* (a variant of UnpinDirty that stores the argument)
UnpinDirtyOverwrite(was_dirty, is_dirty) == is_dirty

\* the dirty flag UnpinPage leaves: set when is_dirty, otherwise kept
UnpinDirty(was_dirty, is_dirty) == IF is_dirty THEN TRUE ELSE was_dirty

\* BufferPoolManager::UnpinPage
UnpinPage(page_id, is_dirty) ==
  /\ latch_ = "free"
  /\ UNCHANGED <<pool_size_, disk_scheduler_, trie_, guards_>>
  /\ IF page_id \notin DOMAIN page_table_
     THEN ReturnUnchanged(Call("UnpinPage", page_id, is_dirty, "returned", FALSE, NoFrame))
     ELSE LET frame_id == page_table_[page_id]
              page == pages_[frame_id]
          IN IF page.pin_count_ <= 0
             THEN ReturnUnchanged(Call("UnpinPage", page_id, is_dirty, "returned", FALSE, frame_id))
             ELSE /\ pages_' = [pages_ EXCEPT ![frame_id].pin_count_ = @ - 1,
                                              ![frame_id].is_dirty_ = UnpinDirty(@, is_dirty)]
                  /\ replacer_' = IF page.pin_count_ - 1 = 0
                                  THEN SetEvictable(replacer_, frame_id, TRUE)
                                  ELSE replacer_
                  /\ UNCHANGED <<page_table_, free_list_, free_pages_, next_page_id_, latch_, request_queue_>>
                  /\ last' = Call("UnpinPage", page_id, is_dirty, "returned", TRUE, frame_id)

\* BufferPoolManager::FlushPage
FlushPage(page_id) ==
  /\ latch_ = "free"
  /\ UNCHANGED <<pool_size_, disk_scheduler_, trie_, guards_>>
  /\ IF page_id \notin DOMAIN page_table_
     THEN ReturnUnchanged(Call("FlushPage", page_id, FALSE, "returned", FALSE, NoFrame))
     ELSE \E relock \in Relock :
       LET frame_id == page_table_[page_id]
           page == pages_[frame_id]
       IN /\ pages_' = [pages_ EXCEPT ![frame_id].is_dirty_ = FALSE]
          /\ request_queue_' = IF page.is_dirty_
                               THEN Schedule(request_queue_, DiskRequest(TRUE, frame_id, page.page_id_))
                               ELSE request_queue_
          /\ IF relock = "deadlock"
             THEN /\ latch_' = "deadlocked"
                  /\ UNCHANGED free_pages_
                  /\ last' = Call("FlushPage", page_id, FALSE, "blocked", FALSE, frame_id)
             ELSE /\ free_pages_' = DeallocatePage(free_pages_, page_id)
                  /\ UNCHANGED latch_
                  /\ last' = Call("FlushPage", page_id, FALSE, "returned", TRUE, frame_id)
          /\ UNCHANGED <<replacer_, page_table_, free_list_, next_page_id_>>
  /\ WithinBounds'

\* The entries FlushAllPages may visit, in the order it visits them.  The loop
\* erases the entry its iterator stands on, so going on to the next entry is
\* undefined: the loop visits the first entry and then any number of others.
VisitOrders(table) ==
  {order \in UNION {[1 .. n -> DOMAIN table] : n \in 1 .. Cardinality(DOMAIN table)} :
     \A i, j \in 1 .. Len(order) : order[i] = order[j] => i = j}

\* The body of the loop of FlushAllPages for the entries order[i..], with every
\* DeallocatePage call returning; st = [pages, table, free_pages, queue].
RECURSIVE FlushEach(_, _, _)
FlushEach(order, i, st) ==
  IF i > Len(order) THEN st
  ELSE LET page_id == order[i]
           frame_id == st.table[page_id]
           page == st.pages[frame_id]
       IN FlushEach(order, i + 1,
            [pages |-> [st.pages EXCEPT ![frame_id].is_dirty_ = FALSE],
             queue |-> IF page.is_dirty_
                       THEN Schedule(st.queue, DiskRequest(TRUE, frame_id, page.page_id_))
                       ELSE st.queue,
             table |-> MapErase(st.table, page_id),
             free_pages |-> DeallocatePage(st.free_pages, page_id)])

\* BufferPoolManager::FlushAllPages
FlushAllPages ==
  /\ latch_ = "free"
  /\ UNCHANGED <<pool_size_, disk_scheduler_, trie_, guards_>>
  /\ IF DOMAIN page_table_ = {}
     THEN ReturnUnchanged(Call("FlushAllPages", INVALID_PAGE_ID, FALSE, "returned", TRUE, NoFrame))
     ELSE \E order \in VisitOrders(page_table_), relock \in Relock :
       LET st0 == [pages |-> pages_, table |-> page_table_, free_pages |-> free_pages_,
                   queue |-> request_queue_]
           st == IF relock = "deadlock"
                 THEN [FlushEach(<<order[1]>>, 1, st0) EXCEPT !.free_pages = free_pages_]
                 ELSE FlushEach(order, 1, st0)
       IN /\ pages_' = st.pages
          /\ page_table_' = st.table
          /\ free_pages_' = st.free_pages
          /\ request_queue_' = st.queue
          /\ latch_' = IF relock = "deadlock" THEN "deadlocked" ELSE latch_
          /\ last' = Call("FlushAllPages", INVALID_PAGE_ID, FALSE,
                          IF relock = "deadlock" THEN "blocked" ELSE "returned",
                          relock # "deadlock", NoFrame)
          /\ UNCHANGED <<replacer_, free_list_, next_page_id_>>
  /\ WithinBounds'

\* BufferPoolManager::DeletePage
DeletePage(page_id) ==
  /\ latch_ = "free"
  /\ UNCHANGED <<pool_size_, disk_scheduler_, trie_, guards_>>
  /\ IF page_id \notin DOMAIN page_table_
     THEN ReturnUnchanged(Call("DeletePage", page_id, FALSE, "returned", TRUE, NoFrame))
     ELSE LET frame_id == page_table_[page_id]
              page == pages_[frame_id]
              flushed == [pages_ EXCEPT ![frame_id].is_dirty_ = FALSE]
              queue1 == IF page.is_dirty_
                        THEN Schedule(request_queue_, DiskRequest(TRUE, frame_id, page.page_id_))
                        ELSE request_queue_
          IN IF page.pin_count_ > 0
             THEN ReturnUnchanged(Call("DeletePage", page_id, FALSE, "returned", FALSE, frame_id))
             ELSE IF RemoveThrows(replacer_, frame_id)
             THEN /\ pages_' = flushed
                  /\ request_queue_' = queue1
                  /\ UNCHANGED <<replacer_, page_table_, free_list_, free_pages_, next_page_id_, latch_>>
                  /\ last' = Call("DeletePage", page_id, FALSE, "throws", FALSE, frame_id)
             ELSE \E relock \in Relock :
                  /\ pages_' = flushed
                  /\ request_queue_' = queue1
                  /\ replacer_' = Remove(replacer_, frame_id)
                  /\ page_table_' = MapErase(page_table_, page_id)
                  /\ free_list_' = Append(free_list_, frame_id)
                  /\ IF relock = "deadlock"
                     THEN /\ latch_' = "deadlocked"
                          /\ UNCHANGED free_pages_
                          /\ last' = Call("DeletePage", page_id, FALSE, "blocked", FALSE, frame_id)
                     ELSE /\ free_pages_' = DeallocatePage(free_pages_, page_id)
                          /\ UNCHANGED latch_
                          /\ last' = Call("DeletePage", page_id, FALSE, "returned", TRUE, frame_id)
                  /\ UNCHANGED next_page_id_
  /\ WithinBounds'

\* DiskScheduler::StartWorkerThread: one turn of the loop
StartWorkerThread ==
  /\ request_queue_ # <<>>
  /\ LET r == Head(request_queue_)
     IN last' = Call("StartWorkerThread", r.page_id_, r.is_write_, "returned", TRUE, r.data_)
  /\ request_queue_' = Tail(request_queue_)
  /\ UNCHANGED <<replacer_, pool_size_, pages_, page_table_, free_list_, free_pages_, next_page_id_, latch_,
                 disk_scheduler_, trie_, guards_>>

Next ==
  \/ NewPage
  \/ \E p \in PageIds : FetchPage(p)
  \/ \E p \in PageIds, d \in BOOLEAN : UnpinPage(p, d)
  \/ \E p \in PageIds : FlushPage(p)
  \/ FlushAllPages
  \/ \E p \in PageIds : DeletePage(p)
  \/ StartWorkerThread

Spec == Init /\ [][Next]_vars

\* ================================================================== the pool with page guards
\* BufferPoolManager::UnpinPage as the guards call it, on bp = [pages, replacer]
UnpinPageOn(bp, page_id, is_dirty) ==
  IF page_id \notin DOMAIN page_table_ THEN bp
  ELSE LET frame_id == page_table_[page_id]
       IN IF bp.pages[frame_id].pin_count_ <= 0 THEN bp
          ELSE [pages |-> [bp.pages EXCEPT ![frame_id].pin_count_ = @ - 1,
                                           ![frame_id].is_dirty_ = UnpinDirty(@, is_dirty)],
                replacer |-> IF bp.pages[frame_id].pin_count_ - 1 = 0
                             THEN SetEvictable(bp.replacer, frame_id, TRUE)
                             ELSE bp.replacer]

\* BasicPageGuard::Drop: [bp, this]
BasicDrop(bp, this) ==
  IF this.page_ # NoFrame /\ this.bpm_
  THEN [bp |-> UnpinPageOn(bp, bp.pages[this.page_].page_id_, this.is_dirty_),
        this |-> [this EXCEPT !.page_ = NoFrame]]
  ELSE [bp |-> bp, this |-> this]

\* BasicPageGuard::BasicPageGuard(BasicPageGuard &&that): [this, that]
BasicMove(that) == [this |-> that, that |-> EmptyGuard]

\* BasicPageGuard::operator=(BasicPageGuard &&that), this # &that: [bp, this, that]
BasicMoveAssign(bp, this, that) ==
  LET d == BasicDrop(bp, this)
  IN [bp |-> d.bp,
      this |-> [bpm_ |-> FALSE, page_ |-> that.page_, is_dirty_ |-> that.is_dirty_],
      that |-> that]

\* guard = BasicPageGuard(): move assignment from an empty temporary, whose
\* destructor then finds nothing to drop: [bp, this]
AssignEmpty(bp, this) ==
  LET a == BasicMoveAssign(bp, this, EmptyGuard)
  IN [bp |-> a.bp, this |-> a.this]

\* ReadPageGuard::ReadPageGuard(ReadPageGuard &&that): [bp, this, that]
ReadMove(bp, that) ==
  LET m == BasicMove(that)
      e == AssignEmpty(bp, m.this)
  IN [bp |-> e.bp, this |-> e.this, that |-> m.that]

\* WritePageGuard::WritePageGuard(WritePageGuard &&that): [bp, this, that]
WriteMove(bp, that) ==
  LET d == BasicDrop(bp, EmptyGuard)
      a == BasicMoveAssign(d.bp, d.this, that)
      e == AssignEmpty(a.bp, a.that)
  IN [bp |-> e.bp, this |-> a.this, that |-> e.this]

\* ReadPageGuard::operator= and WritePageGuard::operator=, this # &that
WrappedMoveAssign(bp, this, that) ==
  LET d == BasicDrop(bp, this)
      a == BasicMoveAssign(d.bp, d.this, that)
      e == AssignEmpty(a.bp, a.that)
  IN [bp |-> e.bp, this |-> a.this, that |-> e.this]

\* a NewPage has handed out a pinned page that no guard has been made for yet
Pending == last.op = "NewPage" /\ last.ok

Live(s) == guards_.g[s].kind # "dead"

\* the call record of every guard call; guards_ says which one it was
GuardCall == Call("PageGuard", INVALID_PAGE_ID, FALSE, "returned", TRUE, NoFrame)

\* what a guard call leaves alone
guardRest ==
  <<pool_size_, page_table_, free_list_, free_pages_, next_page_id_, latch_, request_queue_, disk_scheduler_, trie_>>

\* the pool after a guard call
PoolAfter(bp) == pages_' = bp.pages /\ replacer_' = bp.replacer

PoolNow == [pages |-> pages_, replacer |-> replacer_]

InitGuards ==
  /\ \E pool_size \in 1 .. MaxPoolSize :
       /\ replacer_ = NewReplacer(pool_size, ReplacerK)
       /\ NewBufferPool(pool_size)
  /\ trie_ = NewTrie
  /\ guards_ = NoGuards
  /\ last = NoCall

\* the client calls NewPage to put the page under a guard
GuardNewPage == ~Pending /\ NewPage

\* BasicPageGuard(bpm, page), ReadPageGuard(bpm, page), WritePageGuard(bpm, page)
\* on the page the NewPage before returned
GuardConstruct(s, kind) ==
  /\ Pending /\ ~Live(s)
  /\ guards_' = [g |-> [guards_.g EXCEPT ![s] =
                          [kind |-> kind,
                           guard_ |-> [bpm_ |-> TRUE, page_ |-> last.frame, is_dirty_ |-> FALSE]]],
                  op |-> "construct", this |-> s, that |-> 0]
  /\ last' = GuardCall
  /\ UNCHANGED <<pages_, replacer_, guardRest>>

\* this(std::move(that)) for two guards of one class
GuardMove(this, that) ==
  /\ ~Pending /\ latch_ = "free"
  /\ ~Live(this) /\ Live(that)
  /\ LET kind == guards_.g[that].kind
         src == guards_.g[that].guard_
         m == IF kind = "Basic" THEN [bp |-> PoolNow] @@ BasicMove(src)
              ELSE IF kind = "Read" THEN ReadMove(PoolNow, src)
              ELSE WriteMove(PoolNow, src)
     IN /\ guards_' = [g |-> [guards_.g EXCEPT ![this] = [kind |-> kind, guard_ |-> m.this],
                                               ![that] = [kind |-> kind, guard_ |-> m.that]],
                       op |-> "move", this |-> this, that |-> that]
        /\ PoolAfter(m.bp)
  /\ last' = GuardCall
  /\ UNCHANGED guardRest

\* this = std::move(that) for two guards of one class
GuardMoveAssign(this, that) ==
  /\ ~Pending /\ latch_ = "free"
  /\ this # that /\ Live(this) /\ Live(that)
  /\ guards_.g[this].kind = guards_.g[that].kind
  /\ LET kind == guards_.g[that].kind
         m == IF kind = "Basic"
              THEN BasicMoveAssign(PoolNow, guards_.g[this].guard_, guards_.g[that].guard_)
              ELSE WrappedMoveAssign(PoolNow, guards_.g[this].guard_, guards_.g[that].guard_)
     IN /\ guards_' = [g |-> [guards_.g EXCEPT ![this] = [kind |-> kind, guard_ |-> m.this],
                                               ![that] = [kind |-> kind, guard_ |-> m.that]],
                       op |-> "assign", this |-> this, that |-> that]
        /\ PoolAfter(m.bp)
  /\ last' = GuardCall
  /\ UNCHANGED guardRest

\* Drop() of a Basic, Read or Write guard
GuardDrop(this) ==
  /\ ~Pending /\ latch_ = "free"
  /\ Live(this)
  /\ LET d == BasicDrop(PoolNow, guards_.g[this].guard_)
     IN /\ guards_' = [g |-> [guards_.g EXCEPT ![this].guard_ = d.this],
                       op |-> "Drop", this |-> this, that |-> 0]
        /\ PoolAfter(d.bp)
  /\ last' = GuardCall
  /\ UNCHANGED guardRest

\* the destructor of a Basic, Read or Write guard
GuardDestroy(this) ==
  /\ ~Pending /\ latch_ = "free"
  /\ Live(this)
  /\ LET d == BasicDrop(PoolNow, guards_.g[this].guard_)
     IN /\ guards_' = [g |-> [guards_.g EXCEPT ![this] = [kind |-> "dead", guard_ |-> EmptyGuard]],
                       op |-> "destroy", this |-> this, that |-> 0]
        /\ PoolAfter(d.bp)
  /\ last' = GuardCall
  /\ UNCHANGED guardRest

\* that.UpgradeRead() / that.UpgradeWrite(), the result stored in slot this
GuardUpgrade(this, that, kind) ==
  /\ ~Pending
  /\ ~Live(this) /\ Live(that) /\ guards_.g[that].kind = "Basic"
  /\ guards_' = [g |-> [guards_.g EXCEPT ![this] =
                          [kind |-> kind,
                           guard_ |-> [bpm_ |-> guards_.g[that].guard_.bpm_,
                                       page_ |-> guards_.g[that].guard_.page_,
                                       is_dirty_ |-> FALSE]]],
                  op |-> "upgrade", this |-> this, that |-> that]
  /\ last' = GuardCall
  /\ UNCHANGED <<pages_, replacer_, guardRest>>

NextGuards ==
  \/ GuardNewPage
  \/ \E s \in Slots, kind \in {"Basic", "Read", "Write"} : GuardConstruct(s, kind)
  \/ \E s, t \in Slots : GuardMove(s, t)
  \/ \E s, t \in Slots : GuardMoveAssign(s, t)
  \/ \E s \in Slots : GuardDrop(s)
  \/ \E s \in Slots : GuardDestroy(s)
  \/ \E s, t \in Slots, kind \in {"Read", "Write"} : GuardUpgrade(s, t, kind)

SpecGuards == InitGuards /\ [][NextGuards]_vars

\* ================================================================== the disk scheduler on its own
\* a DiskRequest with its callback_, the promise CreatePromise made for it
WithCallback(r, promise) ==
  [is_write_ |-> r.is_write_, data_ |-> r.data_, page_id_ |-> r.page_id_, callback_ |-> promise]

\* (a variant of ChannelGet that takes the newest element)
ChannelGetNewest(queue) ==
  [element |-> queue[Len(queue)], queue |-> SubSeq(queue, 1, Len(queue) - 1)]

\* Channel::Get on a non-empty queue: the oldest element
ChannelGet(queue) == [element |-> Head(queue), queue |-> Tail(queue)]

InitScheduler ==
  /\ replacer_ = NewReplacer(1, ReplacerK)
  /\ NewBufferPool(1)
  /\ trie_ = NewTrie
  /\ guards_ = NoGuards
  /\ last = NoCall

schedulerRest ==
  <<replacer_, pool_size_, pages_, page_table_, free_list_, free_pages_, next_page_id_, latch_, trie_, guards_, last>>

\* a client: CreatePromise, then Schedule
DoSchedule(is_write, page_id) ==
  /\ disk_scheduler_.object = "alive"
  /\ Len(disk_scheduler_.promises) < MaxRequests
  /\ LET promise == Len(disk_scheduler_.promises) + 1
     IN /\ request_queue_' = Schedule(request_queue_, WithCallback(DiskRequest(is_write, 0, page_id), promise))
        /\ disk_scheduler_' = [disk_scheduler_ EXCEPT !.promises = Append(@, 0)]
  /\ UNCHANGED schedulerRest

\* DiskScheduler::~DiskScheduler up to the join
DestructorPut ==
  /\ disk_scheduler_.object = "alive"
  /\ request_queue_' = Append(request_queue_, Nullopt)
  /\ disk_scheduler_' = [disk_scheduler_ EXCEPT !.object = "joining"]
  /\ UNCHANGED schedulerRest

\* DiskScheduler::~DiskScheduler: join returns once the worker has exited
DestructorJoin ==
  /\ disk_scheduler_.object = "joining"
  /\ disk_scheduler_.thread = "exited"
  /\ disk_scheduler_' = [disk_scheduler_ EXCEPT !.object = "destroyed"]
  /\ UNCHANGED <<request_queue_, schedulerRest>>

\* StartWorkerThread: request_queue_.Get() and the test for std::nullopt
WorkerGet ==
  /\ disk_scheduler_.thread = "Get"
  /\ request_queue_ # <<>>
  /\ LET g == ChannelGet(request_queue_)
     IN /\ request_queue_' = g.queue
        /\ disk_scheduler_' = [disk_scheduler_ EXCEPT !.r = g.element,
                                  !.thread = IF g.element = Nullopt THEN "exited" ELSE "Perform"]
  /\ UNCHANGED schedulerRest

\* StartWorkerThread: WritePage or ReadPage
WorkerPerform ==
  /\ disk_scheduler_.thread = "Perform"
  /\ disk_scheduler_' = [disk_scheduler_ EXCEPT !.disk = Append(@, disk_scheduler_.r),
                                                !.thread = "SetValue"]
  /\ UNCHANGED <<request_queue_, schedulerRest>>

\* StartWorkerThread: callback_.set_value(true), and back to the top of the loop
WorkerSetValue ==
  /\ disk_scheduler_.thread = "SetValue"
  /\ disk_scheduler_' = [disk_scheduler_ EXCEPT !.promises[disk_scheduler_.r.callback_] = @ + 1,
                                                !.r = Nullopt,
                                                !.thread = "Get"]
  /\ UNCHANGED <<request_queue_, schedulerRest>>

Worker == WorkerGet \/ WorkerPerform \/ WorkerSetValue

NextScheduler ==
  \/ \E w \in BOOLEAN, p \in PageIds : DoSchedule(w, p)
  \/ DestructorPut
  \/ DestructorJoin
  \/ WorkerGet
  \/ WorkerPerform
  \/ WorkerSetValue

\* the worker is a thread of its own and the joining destructor runs on
SpecScheduler ==
  InitScheduler /\ [][NextScheduler]_vars /\ WF_vars(Worker) /\ WF_vars(DestructorJoin)

\* ================================================================== the trie on its own
InitTrie ==
  /\ replacer_ = NewReplacer(1, ReplacerK)
  /\ NewBufferPool(1)
  /\ trie_ = NewTrie
  /\ guards_ = NoGuards
  /\ last = NoCall

trieRest == <<replacer_, bpmVars, guards_, last>>

\* the Trie the last call returned
Newest(t) == t.roots[Len(t.roots)]

\* Put(key, value) on the newest trie; every trie returned so far is kept
DoPut(key, value) ==
  /\ trie_.status = "returned"
  /\ Len(trie_.roots) < MaxVersions
  /\ \E null_root \in NullRoot :
       LET p == TriePut(trie_.nodes, Newest(trie_), key, value, null_root)
       IN trie_' = [nodes |-> p.nodes,
                    roots |-> IF p.status = "returned" THEN Append(trie_.roots, p.root) ELSE trie_.roots,
                    op |-> "Put", key |-> key, value |-> value, status |-> p.status]
  /\ UNCHANGED trieRest

\* Remove(key) on the newest trie
DoTrieRemove(key) ==
  /\ trie_.status = "returned"
  /\ Len(trie_.roots) < MaxVersions
  /\ LET p == TrieRemove(trie_.nodes, Newest(trie_), key)
     IN trie_' = [nodes |-> p.nodes, roots |-> Append(trie_.roots, p.root),
                  op |-> "Remove", key |-> key, value |-> 0, status |-> p.status]
  /\ UNCHANGED trieRest

NextTrie ==
  \/ \E key \in Keys, value \in Values : DoPut(key, value)
  \/ \E key \in Keys : DoTrieRemove(key)

SpecTrie == InitTrie /\ [][NextTrie]_vars

\* ================================================================== properties of the buffer pool
\* a page is resident when the page table has an entry for it
Resident(p) == p \in DOMAIN page_table_

\* the ids waiting in a sequence
Range(seq) == {seq[i] : i \in 1 .. Len(seq)}

\* the requests a step has added to the scheduler queue
Scheduled == {request_queue_'[i] : i \in Len(request_queue_) + 1 .. Len(request_queue_')}

\* a write of frame f's buffer to page p
WriteOf(f, p) == [is_write_ |-> TRUE, data_ |-> f, page_id_ |-> p]

PinCounts == [f \in Frames |-> pages_[f].pin_count_]

\* C1: a frame with pin_count > 0 is never evictable in the replacer, and
\* NewPage / FetchPage never take a frame with pin_count > 0 and hand it to a
\* different page.
C1_PinnedNeverEvicted ==
  [][/\ \A f \in Frames : pages_'[f].pin_count_ > 0 => f \notin EvictableFrames(replacer_')
     /\ last'.op \in {"NewPage", "FetchPage"}
          => \A f \in Frames :
               pages_[f].pin_count_ > 0 => pages_'[f].page_id_ = pages_[f].page_id_]_vars

\* C2: if page P is resident, FetchPage(P) returns P's frame with its pin count
\* incremented by exactly one and the frame non-evictable, whatever the pin
\* state of the other frames; FetchPage returns nullptr only when P is not
\* resident and no frame is free or evictable.
C2_FetchResident ==
  [][\A p \in PageIds :
       (last'.op = "FetchPage" /\ last'.page_id = p)
       => /\ Resident(p)
               => /\ last'.ok
                  /\ last'.frame = page_table_[p]
                  /\ pages_'[page_table_[p]].pin_count_ = pages_[page_table_[p]].pin_count_ + 1
                  /\ page_table_[p] \notin EvictableFrames(replacer_')
          /\ ~last'.ok
               => /\ ~Resident(p)
                  /\ free_list_ = <<>>
                  /\ EvictableFrames(replacer_) = {}]_vars

\* C3: NewPage returns nullptr only when every frame is pinned; whenever the
\* free list is non-empty or some frame is evictable it returns a frame holding
\* the newly allocated page id with pin count 1, non-evictable and registered
\* in the page table; and a NewPage call that returns nullptr leaves the free
\* list, page table, replacer, pin counts and page-id allocator unchanged.
C3_NewPageNullOnlyWhenAllPinned ==
  [][(last'.op = "NewPage" /\ last'.status = "returned")
     => /\ ~last'.ok => AllPinned
        /\ (free_list_ # <<>> \/ EvictableFrames(replacer_) # {})
             => /\ last'.ok
                /\ last'.frame \in Frames
                /\ pages_'[last'.frame].page_id_ = last'.page_id
                /\ pages_'[last'.frame].pin_count_ = 1
                /\ last'.frame \notin EvictableFrames(replacer_')
                /\ last'.page_id \in DOMAIN page_table_'
                /\ page_table_'[last'.page_id] = last'.frame
        /\ ~last'.ok
             => /\ UNCHANGED <<free_list_, page_table_, replacer_, free_pages_, next_page_id_>>
                /\ PinCounts' = PinCounts]_vars

\* C4: UnpinPage(P, d) returns false and changes no state when P is not
\* resident or its pin count is already zero; otherwise it returns true,
\* decrements the pin count by exactly one, sets the dirty flag to
\* (old dirty OR d), and the frame is evictable afterwards exactly when the pin
\* count has reached zero.
C4_UnpinPage ==
  [][\A p \in PageIds, d \in BOOLEAN :
       (last'.op = "UnpinPage" /\ last'.page_id = p /\ last'.is_dirty = d)
       => IF ~Resident(p) \/ pages_[page_table_[p]].pin_count_ = 0
          THEN /\ ~last'.ok
               /\ UNCHANGED <<replacer_, bpmVars>>
          ELSE LET f == page_table_[p]
               IN /\ last'.ok
                  /\ pages_'[f].pin_count_ = pages_[f].pin_count_ - 1
                  /\ pages_'[f].is_dirty_ = (pages_[f].is_dirty_ \/ d)
                  /\ pages_'[f].page_id_ = pages_[f].page_id_
                  /\ (f \in EvictableFrames(replacer_') <=> pages_'[f].pin_count_ = 0)
                  /\ \A g \in Frames \ {f} : pages_'[g] = pages_[g]
                  /\ UNCHANGED <<page_table_, free_list_, free_pages_, next_page_id_, request_queue_>>]_vars

\* C4 witness: an UnpinPage(P, false) has returned true on a dirty page, taking
\* its pin count to zero: the page is still dirty and its frame is evictable.
C4_Witness ==
  /\ last.op = "UnpinPage" /\ last.ok /\ ~last.is_dirty
  /\ pages_[last.frame].is_dirty_
  /\ pages_[last.frame].pin_count_ = 0
  /\ last.frame \in EvictableFrames(replacer_)

\* C5: whenever NewPage or FetchPage reuses a frame whose current page is
\* dirty, a write request carrying that page's id and buffer is scheduled by
\* the call that clears the frame's dirty flag.
C5_NoDirtyPageDropped ==
  [][last'.op \in {"NewPage", "FetchPage"}
     => \A f \in Frames :
          (pages_[f].is_dirty_ /\ ~pages_'[f].is_dirty_)
            => WriteOf(f, pages_[f].page_id_) \in Scheduled]_vars

\* C6: FlushPage on a resident page P returns true, leaves the dirty flag
\* clear, and leaves P resident in the same frame with the same pin count and
\* its id out of the deallocated-id pool; on a non-resident id it returns
\* false.  FlushAllPages clears the dirty flag of every resident page and
\* leaves the set of resident pages and the deallocated-id pool unchanged.
C6_FlushNonDestructive ==
  [][/\ \A p \in PageIds :
          (last'.op = "FlushPage" /\ last'.page_id = p /\ last'.status = "returned")
          => IF Resident(p)
             THEN /\ last'.ok
                  /\ ~pages_'[page_table_[p]].is_dirty_
                  /\ page_table_' = page_table_
                  /\ pages_'[page_table_[p]].page_id_ = pages_[page_table_[p]].page_id_
                  /\ PinCounts' = PinCounts
                  /\ free_pages_' = free_pages_
             ELSE ~last'.ok
     /\ (last'.op = "FlushAllPages" /\ last'.status = "returned")
          => /\ page_table_' = page_table_
             /\ \A p \in DOMAIN page_table_ : ~pages_'[page_table_[p]].is_dirty_
             /\ PinCounts' = PinCounts
             /\ free_pages_' = free_pages_]_vars

\* no two frames hold the same assigned page id
UniquePageIds ==
  \A f, g \in Frames :
    (f # g /\ pages_[f].page_id_ # INVALID_PAGE_ID) => pages_[f].page_id_ # pages_[g].page_id_

\* C7: no two frames hold the same assigned page id, and the id AllocatePage
\* returns to NewPage is neither in the page table nor held by a frame other
\* than the one NewPage is about to reuse (so NewPage never takes its
\* read-if-already-in-page-table branch).
C7_UniquePageIds ==
  [][/\ UniquePageIds'
     /\ (last'.op = "NewPage" /\ last'.page_id # INVALID_PAGE_ID)
          => /\ last'.page_id \notin DOMAIN page_table_
             /\ \A f \in Frames :
                  pages_[f].page_id_ = last'.page_id => (last'.ok /\ f = last'.frame)]_vars

\* C17: every buffer-pool operation acquires the pool mutex once and releases
\* it on return: NewPage, FlushPage, FlushAllPages and DeletePage never wait
\* for the mutex while holding it (also not inside AllocatePage and
\* DeallocatePage), so every call terminates and the pool never deadlocks on
\* its own lock.
C17_NoSelfDeadlock ==
  /\ latch_ = "free"
  /\ last.status # "blocked"

\* C18: the page table maps page id P to frame f exactly when frame f holds
\* page P: every entry page_table_[P] = f has pages_[f].page_id == P (no stale
\* entry survives an eviction), and every page installed in a frame by NewPage
\* or FetchPage has an entry (so a later UnpinPage of it finds it).
C18_PageTableExact ==
  /\ [](\A p \in DOMAIN page_table_ : pages_[page_table_[p]].page_id_ = p)
  /\ [][(last'.op \in {"NewPage", "FetchPage"} /\ last'.ok)
        => /\ pages_'[last'.frame].page_id_ = last'.page_id
           /\ last'.page_id \in DOMAIN page_table_'
           /\ page_table_'[last'.page_id] = last'.frame]_vars

\* the frames the page table points at
TableFrames == {page_table_[p] : p \in DOMAIN page_table_}

\* C19: in every reachable state of the buffer pool no frame is both in the
\* free list and the target of a page-table entry, and no frame appears in the
\* free list more than once.
C19_FreeListDisjoint ==
  /\ Range(free_list_) \cap TableFrames = {}
  /\ \A i, j \in 1 .. Len(free_list_) : free_list_[i] = free_list_[j] => i = j

\* the requests the worker has not taken yet, after the step
Waiting == Range(request_queue_')

\* C20: the pool waits for every disk request it schedules before going on:
\* when FetchPage returns a page that was not resident, the worker has already
\* executed the read of that page into the frame, and a write scheduled for a
\* dirty victim has been executed by the worker before any later read into,
\* or reuse of, the same frame buffer.
C20_DiskRequestsAwaited ==
  [][/\ \A p \in PageIds :
          (last'.op = "FetchPage" /\ last'.ok /\ last'.page_id = p /\ ~Resident(p))
            => DiskRequest(FALSE, last'.frame, p) \notin Waiting
     /\ (\/ last'.op = "NewPage" /\ last'.ok
         \/ last'.op = "FetchPage" /\ last'.ok /\ last'.page_id \notin DOMAIN page_table_)
          => \A r \in Waiting : ~(r.is_write_ /\ r.data_ = last'.frame)]_vars

\* C21: every successful NewPage and FetchPage call records one access for
\* the frame it returns (the frame is tracked afterwards and the newest entry
\* of its history is the timestamp of this call), and so every frame in the
\* replacer's evictable set has a non-empty access history whenever Evict
\* examines it.
C21_AccessRecorded ==
  /\ [][(last'.op \in {"NewPage", "FetchPage"} /\ last'.ok)
        => /\ last'.frame \in DOMAIN replacer_'.node_store_
           /\ replacer_'.node_store_[last'.frame].history_ # <<>>
           /\ Head(replacer_'.node_store_[last'.frame].history_) = replacer_.current_timestamp_
           /\ replacer_'.current_timestamp_ = replacer_.current_timestamp_ + 1]_vars
  /\ [](\A f \in EvictableFrames(replacer_) : replacer_.node_store_[f].history_ # <<>>)

\* ================================================================== properties of the replacer
\* the smallest timestamp in a non-empty history
EarliestAccess(h) == Min({h[i] : i \in 1 .. Len(h)})

\* the k-th most recent timestamp of a history holding k entries, newest first
KthRecent(h, k) == h[k]

EvictReturned == last'.op = "Evict" /\ last'.ok

\* C8: when Evict is called and at least one evictable frame has fewer than k
\* recorded accesses, the victim is, among those frames, the one whose earliest
\* recorded access timestamp is smallest (stated for the calls where each of
\* those frames has at least one recorded access).
C8_EarliestOfInfinite ==
  [][(/\ EvictReturned
      /\ InfiniteFrames(replacer_) # {}
      /\ \A g \in InfiniteFrames(replacer_) : Accesses(replacer_, g) > 0)
     => /\ last'.frame \in InfiniteFrames(replacer_)
        /\ \A g \in InfiniteFrames(replacer_) :
              EarliestAccess(replacer_.node_store_[last'.frame].history_)
                <= EarliestAccess(replacer_.node_store_[g].history_)]_vars

\* C9: Evict never returns a frame with k or more recorded accesses while some
\* evictable frame has fewer than k recorded accesses.
C9_InfiniteDistancePriority ==
  [][(EvictReturned /\ InfiniteFrames(replacer_) # {})
     => /\ last'.frame \in DOMAIN replacer_.node_store_
        /\ Accesses(replacer_, last'.frame) < replacer_.k_]_vars

\* C9 witness: Evict has returned a frame with fewer than k accesses while a
\* more recently tracked evictable frame with k accesses stays behind.
C9_Witness ==
  /\ last.op = "Evict" /\ last.ok
  /\ Len(last.history) > 0 /\ Len(last.history) < replacer_.k_
  /\ \E g \in EvictableFrames(replacer_) :
        /\ Accesses(replacer_, g) = replacer_.k_
        /\ KthRecent(replacer_.node_store_[g].history_, replacer_.k_) < last.history[1]

\* C10: when every evictable frame has at least k recorded accesses, Evict
\* returns the evictable frame whose k-th most recent access is oldest; with
\* k = 1 that is the frame whose last access is oldest; and the frame Evict
\* returns always has its evictable flag set.
C10_SmallestKDistance ==
  [][EvictReturned
     => /\ last'.frame \in EvictableFrames(replacer_)
        /\ (InfiniteFrames(replacer_) = {}
             => \A g \in EvictableFrames(replacer_) :
                  /\ KthRecent(replacer_.node_store_[last'.frame].history_, replacer_.k_)
                       <= KthRecent(replacer_.node_store_[g].history_, replacer_.k_)
                  /\ (replacer_.k_ = 1
                       => replacer_.node_store_[last'.frame].history_[1]
                            <= replacer_.node_store_[g].history_[1]))]_vars

\* C10 witness: with k >= 2 and every evictable frame holding k accesses, Evict
\* has returned the frame with the oldest k-th access although the other
\* evictable frame was touched less recently.
C10_Witness ==
  /\ last.op = "Evict" /\ last.ok
  /\ replacer_.k_ >= 2 /\ Len(last.history) = replacer_.k_
  /\ \E g \in EvictableFrames(replacer_) :
        /\ Accesses(replacer_, g) = replacer_.k_
        /\ KthRecent(replacer_.node_store_[g].history_, replacer_.k_)
             > KthRecent(last.history, replacer_.k_)
        /\ replacer_.node_store_[g].history_[1] < last.history[1]

\* what a client can observe of frame f: its node, or a fresh one if untracked
NodeView(r) == [f \in 0 .. r.replacer_size_ - 1 |-> NodeAt(r, f)]

\* the evictable list holds each frame whose flag is set once, and nothing else
EvictableListExact(r) ==
  /\ \A i, j \in 1 .. Len(r.evictable_list_) :
        r.evictable_list_[i] = r.evictable_list_[j] => i = j
  /\ {r.evictable_list_[i] : i \in 1 .. Len(r.evictable_list_)} = EvictableFrames(r)

\* C11: after any sequence of RecordAccess, SetEvictable, Evict and Remove
\* calls, Size() equals the number of tracked frames whose evictable flag is
\* set, which equals the length of the evictable list (no duplicates, no
\* evicted or removed frame left in it); SetEvictable with the flag already at
\* the requested value changes nothing.
C11_SizeCountsEvictable ==
  /\ [](/\ Size(replacer_) = Cardinality(EvictableFrames(replacer_))
        /\ Size(replacer_) = Len(replacer_.evictable_list_)
        /\ EvictableListExact(replacer_))
  /\ [][(/\ last'.op = "SetEvictable" /\ last'.status = "returned"
          /\ NodeAt(replacer_, last'.frame).is_evictable_ = last'.is_dirty)
         => /\ Size(replacer_') = Size(replacer_)
            /\ replacer_'.evictable_list_ = replacer_.evictable_list_
            /\ NodeView(replacer_') = NodeView(replacer_)
            /\ replacer_'.current_timestamp_ = replacer_.current_timestamp_
            /\ last'.frame \in DOMAIN replacer_.node_store_ => replacer_' = replacer_]_vars

\* C11 witness: SetEvictable(f, true) has returned for a frame that was already
\* evictable (f is not at the back of the list, where a push_back would have
\* put it), after an Evict or Remove has erased a node (a timestamp was
\* recorded but no tracked frame holds one).
C11_Witness ==
  /\ last.op = "SetEvictable" /\ last.status = "returned" /\ last.is_dirty
  /\ Len(replacer_.evictable_list_) = 2
  /\ replacer_.evictable_list_[1] = last.frame
  /\ Size(replacer_) = 2
  /\ replacer_.current_timestamp_ > 0
  /\ \A f \in DOMAIN replacer_.node_store_ : Accesses(replacer_, f) = 0

\* ================================================================== properties of the disk scheduler
\* the promises whose request the disk manager has performed
Performed == {disk_scheduler_.disk[i].callback_ : i \in 1 .. Len(disk_scheduler_.disk)}

\* the i-th request scheduled carries the i-th promise created
SchedulerSafe ==
  /\ \A i \in 1 .. Len(disk_scheduler_.disk) : disk_scheduler_.disk[i].callback_ = i
  /\ \A i \in 1 .. Len(disk_scheduler_.promises) :
        /\ disk_scheduler_.promises[i] <= 1
        /\ disk_scheduler_.promises[i] = 1 => i \in Performed
  /\ disk_scheduler_.thread = "exited"
        => \A i \in 1 .. Len(disk_scheduler_.promises) :
             i \in Performed /\ disk_scheduler_.promises[i] = 1
  /\ disk_scheduler_.object = "destroyed" => disk_scheduler_.thread = "exited"

\* C12: the worker executes the scheduled requests one at a time in the order
\* they were enqueued; each request's completion is fulfilled with true exactly
\* once and only after its read or write has been performed; and every request
\* scheduled before the scheduler is destroyed is executed before the worker
\* exits and the destructor returns (which it does).
C12_FifoAndDrain ==
  /\ []SchedulerSafe
  /\ \A i \in 1 .. MaxRequests :
        (Len(disk_scheduler_.promises) >= i)
          ~> (Len(disk_scheduler_.promises) >= i /\ disk_scheduler_.promises[i] = 1)
  /\ (disk_scheduler_.object = "joining") ~> (disk_scheduler_.object = "destroyed")

\* C12 witness: the destructor has returned after the worker performed a
\* write and then a read that were both scheduled before it.
C12_Witness ==
  /\ disk_scheduler_.object = "destroyed"
  /\ Len(disk_scheduler_.disk) >= 2
  /\ disk_scheduler_.disk[1].is_write_ /\ ~disk_scheduler_.disk[2].is_write_
  /\ disk_scheduler_.promises[1] = 1 /\ disk_scheduler_.promises[2] = 1

\* ================================================================== properties of the trie
\* t.Get(key) for the trie the call was made on, and for the trie it returned
GetBefore(key) == TrieGet(trie_.nodes, Newest(trie_), key)

GetAfter(key) == TrieGet(trie_'.nodes, Newest(trie_'), key)

\* C13: Put is a map update: for every trie t (the empty trie included), every
\* key k (the empty key included) and value v, t.Put(k, v) returns a trie t2
\* with t2.Get(k) = v and t2.Get(k') = t.Get(k') for every other key k'.
C13_PutIsMapUpdate ==
  [][trie_'.op = "Put"
     => /\ trie_'.status = "returned"
        /\ GetAfter(trie_'.key) = trie_'.value
        /\ \A k \in Keys \ {trie_'.key} : GetAfter(k) = GetBefore(k)]_vars

\* t.Get(key) for the trie returned before the newest one
GetPrevious(key) == TrieGet(trie_.nodes, trie_.roots[Len(trie_.roots) - 1], key)

\* C14: Remove is a map deletion: for every trie t and key k, t.Remove(k)
\* returns a trie t2 with t2.Get(k) = none and t2.Get(k') = t.Get(k') for every
\* other key k'; so t.Put(k, v).Remove(k).Get(k) is none, and when k has no
\* value in t every Get on t2 equals the same Get on t.
C14_RemoveIsMapDeletion ==
  [][trie_'.op = "Remove"
     => /\ trie_'.status = "returned"
        /\ GetAfter(trie_'.key) = 0
        /\ \A k \in Keys \ {trie_'.key} : GetAfter(k) = GetBefore(k)
        /\ GetBefore(trie_'.key) = 0 => \A k \in Keys : GetAfter(k) = GetBefore(k)]_vars

\* C14 witness: Remove(k) has returned for a two-character key k that had a
\* value; k has none now, and its one-character prefix, whose value an earlier
\* Remove took away, still has none.
C14_Witness ==
  /\ trie_.op = "Remove" /\ trie_.status = "returned"
  /\ Len(trie_.roots) >= 2 /\ Len(trie_.key) = 2
  /\ GetPrevious(trie_.key) # 0
  /\ TrieGet(trie_.nodes, Newest(trie_), trie_.key) = 0
  /\ LET prefix == SubSeq(trie_.key, 1, 1)
         node == GetWalk(trie_.nodes, trie_.roots[Len(trie_.roots) - 1], prefix, 1)
     IN /\ node # 0
        /\ trie_.nodes[node].with_value /\ ~trie_.nodes[node].is_value_node_
        /\ TrieGet(trie_.nodes, Newest(trie_), prefix) = 0

\* the nodes reachable from node n (n itself included; none from nullptr)
RECURSIVE Reachable(_, _)
Reachable(nodes, n) ==
  IF n = 0 THEN {}
  ELSE {n} \cup UNION {Reachable(nodes, nodes[n].children_[c]) : c \in DOMAIN nodes[n].children_}

\* the nodes of the tries returned so far
Published(t) == UNION {Reachable(t.nodes, t.roots[i]) : i \in 1 .. Len(t.roots)}

\* C15: persistence: no Put or Remove applied to a trie t, or to a trie derived
\* from t, changes the result of t.Get(k) for any key k; nodes reachable from
\* an already-returned trie are never modified, even when newer versions share
\* them.
C15_Persistence ==
  [][trie_'.op \in {"Put", "Remove"}
     => /\ \A i \in 1 .. Len(trie_.roots) :
             /\ trie_'.roots[i] = trie_.roots[i]
             /\ \A k \in Keys :
                  TrieGet(trie_'.nodes, trie_.roots[i], k) = TrieGet(trie_.nodes, trie_.roots[i], k)
        /\ \A n \in Published(trie_) : trie_'.nodes[n] = trie_.nodes[n]]_vars

\* C15 witness: a Put has gone through a node that an older trie shares with
\* the trie it was applied to, and changed what the key under it maps to: the
\* older tries still give their own answers.
C15_Witness ==
  /\ trie_.op = "Put" /\ trie_.status = "returned"
  /\ Len(trie_.roots) >= 3 /\ Len(trie_.key) = 2
  /\ LET old == trie_.roots[Len(trie_.roots) - 2]
         before == trie_.roots[Len(trie_.roots) - 1]
         prefix == SubSeq(trie_.key, 1, 1)
     IN /\ GetWalk(trie_.nodes, old, prefix, 1) # 0
        /\ GetWalk(trie_.nodes, old, prefix, 1) = GetWalk(trie_.nodes, before, prefix, 1)
        /\ TrieGet(trie_.nodes, before, trie_.key) # 0
        /\ TrieGet(trie_.nodes, before, trie_.key) # trie_.value
        /\ TrieGet(trie_.nodes, Newest(trie_), trie_.key) = trie_.value

\* a node Get finds no value in
Valueless(node) == ~(node.with_value /\ node.is_value_node_)

\* the nodes of the trie at root that are valueless and childless
DeadNodes(nodes, root) ==
  {n \in Reachable(nodes, root) : Valueless(nodes[n]) /\ DOMAIN nodes[n].children_ = {}}

\* C22: in every trie produced by Put and Remove calls from the empty trie no
\* node is both valueless and childless, the root included (Remove prunes such
\* nodes bottom-up along the removed key's path), and a trie that holds no
\* value, the value under the empty key included, is the empty trie without a
\* root.
C22_NoDeadNodes ==
  \A i \in 1 .. Len(trie_.roots) :
    /\ DeadNodes(trie_.nodes, trie_.roots[i]) = {}
    /\ (\A k \in Keys : TrieGet(trie_.nodes, trie_.roots[i], k) = 0) => trie_.roots[i] = 0

\* ================================================================== properties of the page guards
\* the live guards that reference frame f
GuardsOn(gs, f) == {s \in Slots : gs.g[s].kind # "dead" /\ gs.g[s].guard_.page_ = f}

\* C16: each pin held through a page guard is released by exactly one
\* UnpinPage call, made when the guard that owns the page is dropped or
\* destroyed: move construction, move assignment and UpgradeRead/UpgradeWrite
\* hand the page to the destination without unpinning it and leave the source
\* empty, and a second Drop does nothing; hence for every page the pin count
\* equals the number of live non-empty guards referencing it.
C16_GuardOwnsOnePin ==
  /\ [](~Pending => \A f \in Frames : pages_[f].pin_count_ = Cardinality(GuardsOn(guards_, f)))
  /\ [][(last'.op = "PageGuard" /\ guards_'.op \in {"move", "assign", "upgrade"})
        => LET src == guards_.g[guards_'.that].guard_
           IN src.page_ # NoFrame
                => /\ pages_'[src.page_].pin_count_ = pages_[src.page_].pin_count_
                   /\ guards_'.g[guards_'.this].guard_.page_ = src.page_
                   /\ guards_'.g[guards_'.this].guard_.bpm_ = src.bpm_
                   /\ guards_'.g[guards_'.that].guard_.page_ = NoFrame]_vars
  /\ [][(/\ last'.op = "PageGuard" /\ guards_'.op = "Drop"
         /\ guards_.g[guards_'.this].guard_.page_ = NoFrame)
        => pages_' = pages_ /\ replacer_' = replacer_]_vars

====
